---- MODULE Spec2Model ----
(***************************************************************************)
(* Authentication and authorization subsystem of the daycare management    *)
(* platform: login, refresh-token rotation, logout, access-token           *)
(* validation and the tenant-ownership gate.                               *)
(*                                                                         *)
(* Optional[int] values are sequences: <<>> is None, <<n>> is the int n.   *)
(* Time is counted in whole seconds since an arbitrary origin.             *)
(***************************************************************************)
EXTENDS Integers, Sequences, FiniteSets, TLC

\* ---------------------------------------------------------------- bounds
\* most refresh_tokens rows created in one behaviour
MaxTokens == 3
\* consecutive failed logins counted before the count saturates
MaxStreak == 3
\* most refresh_tokens rows while access-token validation is observed
MaxSessions == 2
\* school ids offered to the tenant-ownership gate
MaxSchools == 3
\* students a class with a capacity takes
ClassCapacity == 2

\* ------------------------------------------------------- program constants
ACCESS_TOKEN_EXPIRE_MINUTES == 15
REFRESH_TOKEN_EXPIRE_DAYS == 7
SecondsPerMinute == 60
SecondsPerDay == 86400
JWT_SECRET_KEY == "kinder-tracker-secret-key-change-in-production"
HTTP_401_UNAUTHORIZED == 401
HTTP_403_FORBIDDEN == 403

None == <<>>
Some(x) == <<x>>

\* UserRole
ADMIN == "ADMIN"
DIRECTOR == "DIRECTOR"
TEACHER == "TEACHER"
PARENT == "PARENT"
UserRole == {ADMIN, DIRECTOR, TEACHER, PARENT}

\* ------------------------------------------------------------ pure helpers
\* UserLogin.validate_email: v.lower(), over the addresses the model submits
Lower(v) ==
    CASE v = "DIR@k.io" -> "dir@k.io"
      [] v = "Adm@k.io" -> "adm@k.io"
      [] OTHER -> v

\* bcrypt digest of a password: only verify() can relate it to the password
_hash_password(password) == [scheme |-> "bcrypt", of |-> password]

_verify_password(plain_password, hashed_password) ==
    /\ hashed_password.scheme = "bcrypt"
    /\ hashed_password.of = plain_password

\* the raw token kept as it is, without a digest
_hash_token_plain(token) == [plain |-> token]

\* SHA-256 hex digest of a raw refresh token (collision free on the model's values)
_hash_token(token) == [sha256 |-> token]

\* ----------------------------------------------------------------- state
VARIABLES
    users,           \* users table: row i has user_id = i
    refresh_tokens,  \* refresh_tokens table: row i has token_id = i
    now,             \* wall clock, seconds
    conn,            \* refresh requests in flight, one per connection
    resp,            \* the last response sent to a caller
    rotations,       \* per raw refresh token, the refresh calls that returned a new pair for it
    loggedOut,       \* raw refresh tokens issued to a principal before a successful logout of it
    streak,          \* the email of the last failed logins and how many in a row
    loginReq,        \* the last login request: email, password, streak before it
    authResp,        \* the last get_current_user call: token, time, outcome
    gate,            \* the last check_school_ownership call: inputs and outcome
    schools,         \* schools table: row i has school_id = i
    classes,         \* classes table: row i has class_id = i
    teacher_classes, \* teacher_classes table: pairs <<user_id, class_id>>
    students,        \* students table: row i has student_id = i
    student_classes, \* student_classes table: pairs <<student_id, class_id>>
    student_parents, \* student_parents table: pairs <<student_id, user_id>>
    attendance,      \* attendance table, keyed <<class_id, student_id, attendance_date>>
    reply,           \* the last answer of a school-scoped endpoint, with its request
    enrolling        \* enroll_in_class calls in flight, one per connection

vars == <<users, refresh_tokens, now, conn, resp, rotations, loggedOut,
          streak, loginReq, authResp, gate,
          schools, classes, teacher_classes, students, student_classes,
          student_parents, attendance, reply, enrolling>>

\* the tables of the school-scoped resources, and the last answer about them
tenant == <<schools, classes, teacher_classes, students, student_classes,
            student_parents, attendance, reply, enrolling>>

\* what only some specifications observe
observers == <<streak, loginReq, authResp, gate, tenant>>

\* ------------------------------------------------------------ access token
\* jwt.encode(payload, key, HS256): the claims, and a signature that names
\* the key and the claims it was computed over
JwtEncode(payload, key) ==
    [wellformed |-> TRUE, payload |-> payload, sig |-> [key |-> key, over |-> payload]]

\* a token built from a user dict that has no "school_id" key
_create_access_token_no_school(user, t) ==
    JwtEncode([sub |-> user.user_id,
               role |-> user.role,
               school_id |-> None,
               iat |-> t,
               exp |-> t + ACCESS_TOKEN_EXPIRE_MINUTES * SecondsPerMinute],
              JWT_SECRET_KEY)

_create_access_token(user, t) ==
    JwtEncode([sub |-> user.user_id,
               role |-> user.role,
               school_id |-> user.school_id,
               iat |-> t,
               exp |-> t + ACCESS_TOKEN_EXPIRE_MINUTES * SecondsPerMinute],
              JWT_SECRET_KEY)

\* a decode with options={"verify_exp": False}
decode_access_token_no_exp(token, t) ==
    IF ~token.wellformed THEN None
    ELSE IF token.sig # [key |-> JWT_SECRET_KEY, over |-> token.payload] THEN None
    ELSE Some(token.payload)

\* jwt.decode at time t: DecodeError, InvalidSignatureError and
\* ExpiredSignatureError (exp <= now) all come back as None
decode_access_token(token, t) ==
    IF ~token.wellformed THEN None
    ELSE IF token.sig # [key |-> JWT_SECRET_KEY, over |-> token.payload] THEN None
    ELSE IF token.payload.exp <= t THEN None
    ELSE Some(token.payload)

Unauthorized ==
    [status |-> HTTP_401_UNAUTHORIZED,
     detail |-> "Invalid or expired access token",
     headers |-> "WWW-Authenticate: Bearer",
     payload |-> None]

\* a get_current_user that also looks the principal up and wants it present
get_current_user_with_lookup(token, t) ==
    LET payload == decode_access_token(token, t)
    IN IF payload = None THEN Unauthorized
       ELSE IF users[payload[1].sub].is_deleted = 1 THEN Unauthorized
       ELSE [status |-> 200, detail |-> "", headers |-> "", payload |-> payload]

\* get_current_user: the payload, or the 401 it raises
get_current_user(token, t) ==
    LET payload == decode_access_token(token, t)
    IN IF payload = None THEN Unauthorized
       ELSE [status |-> 200, detail |-> "", headers |-> "", payload |-> payload]

\* -------------------------------------------------------- tenant ownership
\* check_school_ownership: TRUE when it returns, FALSE when it raises 403
check_school_ownership(current_user, school_id) ==
    IF current_user.role = ADMIN THEN TRUE
    ELSE IF current_user.school_id # school_id THEN FALSE
    ELSE TRUE

\* ------------------------------------------------------------- repository
\* UserRepository.get_by_email: Some(user_id) of the non-deleted row, or None
get_by_email(us, email) ==
    LET hits == {i \in DOMAIN us : us[i].email = email /\ us[i].is_deleted = 0}
    IN IF hits = {} THEN None
       ELSE Some(CHOOSE i \in hits : \A j \in hits : i <= j)

\* an exists that also counts soft-deleted rows
exists_deleted_too(us, user_id) == user_id \in DOMAIN us

\* UserRepository.exists (get_by_id is not None)
exists(us, user_id) ==
    user_id \in DOMAIN us /\ us[user_id].is_deleted = 0

soft_delete(us, user_id) ==
    IF ~exists(us, user_id) THEN us
    ELSE [us EXCEPT ![user_id].is_deleted = 1]

\* an INSERT OR REPLACE keyed on the owner: the new row takes the place of the
\* owner's newest row
store_refresh_token_replace(rt, user_id, token_hash, expires_at) ==
    LET new == [user_id |-> user_id, token_hash |-> token_hash,
                expires_at |-> expires_at, revoked |-> 0]
        mine == {i \in DOMAIN rt : rt[i].user_id = user_id}
    IN IF mine = {} THEN Append(rt, new)
       ELSE [i \in DOMAIN rt |->
                IF i \in mine /\ (\A j \in mine : j <= i) THEN new ELSE rt[i]]

store_refresh_token(rt, user_id, token_hash, expires_at) ==
    Append(rt, [user_id |-> user_id, token_hash |-> token_hash,
                expires_at |-> expires_at, revoked |-> 0])

\* a revoke whose UPDATE matches no row
revoke_refresh_token_noop(rt, token_id) == rt

revoke_refresh_token(rt, token_id) ==
    [i \in DOMAIN rt |-> IF i = token_id THEN [rt[i] EXCEPT !.revoked = 1] ELSE rt[i]]

\* a logout that revokes only the principal's oldest row
revoke_all_user_tokens_oldest(rt, user_id) ==
    LET mine == {i \in DOMAIN rt : rt[i].user_id = user_id /\ rt[i].revoked = 0}
    IN [i \in DOMAIN rt |->
           IF i \in mine /\ (\A j \in mine : i <= j)
           THEN [rt[i] EXCEPT !.revoked = 1] ELSE rt[i]]

revoke_all_user_tokens(rt, user_id) ==
    [i \in DOMAIN rt |->
        IF rt[i].user_id = user_id /\ rt[i].revoked = 0
        THEN [rt[i] EXCEPT !.revoked = 1] ELSE rt[i]]

\* secrets.token_urlsafe(64): a value no earlier call has returned to a caller
_create_refresh_token(rt) == Len(rt) + 1

\* a SELECT without the u.is_deleted = 0 condition
SelectToken_deleted_too(rt, us, token_hash) ==
    LET hits == {i \in DOMAIN rt : rt[i].token_hash = token_hash /\ rt[i].revoked = 0}
    IN IF hits = {} THEN None
       ELSE LET i == CHOOSE k \in hits : \A j \in hits : k <= j
            IN Some([token_id |-> i,
                     expires_at |-> rt[i].expires_at,
                     user_id |-> rt[i].user_id,
                     role |-> us[rt[i].user_id].role,
                     school_id |-> us[rt[i].user_id].school_id])

\* a SELECT without the rt.revoked = 0 condition
SelectToken_revoked_too(rt, us, token_hash) ==
    LET hits == {i \in DOMAIN rt : /\ rt[i].token_hash = token_hash
                                   /\ us[rt[i].user_id].is_deleted = 0}
    IN IF hits = {} THEN None
       ELSE LET i == CHOOSE k \in hits : \A j \in hits : k <= j
            IN Some([token_id |-> i,
                     expires_at |-> rt[i].expires_at,
                     user_id |-> rt[i].user_id,
                     role |-> us[rt[i].user_id].role,
                     school_id |-> us[rt[i].user_id].school_id])

\* the SELECT of AuthService.refresh: first non-revoked row with this hash
\* whose owner is not soft-deleted, joined with the owner's columns
SelectActiveToken(rt, us, token_hash) ==
    LET hits == {i \in DOMAIN rt : /\ rt[i].token_hash = token_hash
                                   /\ rt[i].revoked = 0
                                   /\ us[rt[i].user_id].is_deleted = 0}
    IN IF hits = {} THEN None
       ELSE LET i == CHOOSE k \in hits : \A j \in hits : k <= j
            IN Some([token_id |-> i,
                     expires_at |-> rt[i].expires_at,
                     user_id |-> rt[i].user_id,
                     role |-> us[rt[i].user_id].role,
                     school_id |-> us[rt[i].user_id].school_id])

\* --------------------------------------------------------------- responses
TokenResponse(access_token, refresh_token) ==
    [access_token |-> access_token,
     refresh_token |-> refresh_token,
     token_type |-> "bearer",
     expires_in |-> ACCESS_TOKEN_EXPIRE_MINUTES * SecondsPerMinute]

\* routers/auth.py: an error string becomes an HTTPException with this status;
\* arg is the request's argument (email, presented token, user id)
HttpError(op, arg, status, detail) ==
    [op |-> op, arg |-> arg, status |-> status, detail |-> detail, body |-> None]

HttpOk(op, arg, status, body) ==
    [op |-> op, arg |-> arg, status |-> status, detail |-> "", body |-> body]

NoResponse == [op |-> "none", arg |-> None, status |-> 0, detail |-> "", body |-> None]

\* ------------------------------------------------------------ environment
\* connections that carry refresh requests concurrently
Conns == {"c1", "c2"}

\* the principals registered before the first request
InitialUsers ==
    << [email |-> "dir@k.io", password_hash |-> _hash_password("pw-dir"),
        role |-> DIRECTOR, school_id |-> Some(1), phone |-> None, is_deleted |-> 0],
       [email |-> "adm@k.io", password_hash |-> _hash_password("pw-adm"),
        role |-> ADMIN, school_id |-> None, phone |-> None, is_deleted |-> 0] >>

EmailInputs == {"dir@k.io", "DIR@k.io", "adm@k.io", "nobody@k.io"}
PasswordInputs == {"pw-dir", "pw-adm"}

\* the instants at which the refresh lifecycle is observed: the start, and one
\* second more than a refresh-token lifetime later
RefreshInstants == {0, REFRESH_TOKEN_EXPIRE_DAYS * SecondsPerDay + 1}

Idle == [pc |-> "idle", presented |-> 0, row |-> None]

NoStreak == [email |-> "", n |-> 0]
NoLogin == [email |-> "", password |-> "", after |-> 0]
NoAuth == [token |-> None, at |-> 0, outcome |-> None,
           touched |-> FALSE, again |-> FALSE, same |-> TRUE]
NoGate == [user |-> None, target |-> None, allowed |-> None]

\* rows a request in flight is still going to insert
Pending == Cardinality({c \in Conns : conn[c].pc # "idle"})

\* raw refresh tokens whose stored row belongs to user_id
TokensOf(rt, user_id) ==
    {t \in 1..Len(rt) : \E i \in DOMAIN rt :
        rt[i].token_hash = _hash_token(t) /\ rt[i].user_id = user_id}

\* the school-scoped tables before the first request: two schools with a class
\* each, a third school that was soft-deleted, one pupil of school 1 enrolled
\* in class 1
InitialSchools == << [capacity |-> Some(30), is_deleted |-> 0],
                     [capacity |-> None, is_deleted |-> 0],
                     [capacity |-> None, is_deleted |-> 1] >>
InitialClasses == << [class_name |-> "Sun", school_id |-> 1, capacity |-> Some(20), is_deleted |-> 0],
                     [class_name |-> "Star", school_id |-> 2, capacity |-> None, is_deleted |-> 0] >>
InitialStudents == << [school_id |-> 1, is_deleted |-> 0] >>
NoReply == [op |-> "", caller |-> None, target |-> 0, status |-> 0, detail |-> "",
            changed |-> FALSE, school |-> None, assigned |-> FALSE]

\* a connection on which no enroll_in_class call is running
NotEnrolling == [pc |-> "idle", student_id |-> 0, class_id |-> 0]

InitTenant ==
    /\ enrolling = [c \in Conns |-> NotEnrolling]
    /\ schools = InitialSchools
    /\ classes = InitialClasses
    /\ teacher_classes = {}
    /\ students = InitialStudents
    /\ student_classes = {<<1, 1>>}
    /\ student_parents = {}
    /\ attendance = [k \in {} |-> 0]
    /\ reply = NoReply

Init ==
    /\ InitTenant
    /\ users = InitialUsers
    /\ refresh_tokens = <<>>
    /\ now = 0
    /\ conn = [c \in Conns |-> Idle]
    /\ resp = NoResponse
    /\ rotations = [t \in {} |-> 0]
    /\ loggedOut = {}
    /\ streak = NoStreak
    /\ loginReq = NoLogin
    /\ authResp = NoAuth
    /\ gate = NoGate

\* ----------------------------------------------------------------- login
\* a login that tells the caller which check failed
login_error_specific(failed_check) == failed_check

\* the error string AuthService.login returns for each failing check
login_error(failed_check) == "Invalid email or password"

\* AuthService.login: the (result, error) pair it returns and the table it leaves
login(email, password) ==
    LET found == get_by_email(users, email)
    IN IF found = None
       THEN [result |-> None, error |-> Some(login_error("user not found")),
             refresh_tokens |-> refresh_tokens]
       ELSE IF ~_verify_password(password, users[found[1]].password_hash)
       THEN [result |-> None, error |-> Some(login_error("wrong password")),
             refresh_tokens |-> refresh_tokens]
       ELSE LET user == [user_id |-> found[1],
                         role |-> users[found[1]].role,
                         school_id |-> users[found[1]].school_id]
                access_token == _create_access_token(user, now)
                refresh_token == _create_refresh_token(refresh_tokens)
                expires_at == now + REFRESH_TOKEN_EXPIRE_DAYS * SecondsPerDay
            IN [result |-> Some(TokenResponse(access_token, refresh_token)),
                error |-> None,
                refresh_tokens |-> store_refresh_token(refresh_tokens, user.user_id,
                                       _hash_token(refresh_token), expires_at)]

\* POST /auth/login: UserLogin lower-cases the email, the router turns an error
\* into a 401
LoginResponse(email_in, password) ==
    LET email == Lower(email_in)
        r == login(email, password)
    IN IF r.error # None THEN HttpError("login", email, 401, r.error[1])
       ELSE HttpOk("login", email, 200, r.result)

\* the request's effect on the tables; a login that inserts a row waits for room
LoginEffect(email_in, password) ==
    LET r == login(Lower(email_in), password)
    IN /\ r.error = None => Len(refresh_tokens) + Pending < MaxTokens
       /\ refresh_tokens' = r.refresh_tokens
       /\ UNCHANGED <<users, now, conn, rotations, loggedOut>>

Login(email_in, password) ==
    /\ LoginEffect(email_in, password)
    /\ resp' = LoginResponse(email_in, password)

\* --------------------------------------------------------------- refresh
\* POST /auth/refresh, first statement: hash the token and SELECT its row
RefreshSelect(c, t) ==
    /\ conn[c].pc = "idle"
    /\ t \in 0..Len(refresh_tokens)
    /\ LET row == SelectActiveToken(refresh_tokens, users, _hash_token(t))
       IN IF row = None
          THEN /\ resp' = HttpError("refresh", t, 401, "Invalid or expired refresh token")
               /\ UNCHANGED conn
          ELSE /\ Len(refresh_tokens) + Pending < MaxTokens
               /\ conn' = [conn EXCEPT ![c] =
                              [pc |-> "selected", presented |-> t, row |-> row]]
               /\ UNCHANGED resp
    /\ UNCHANGED <<users, refresh_tokens, now, rotations, loggedOut>>

\* an expiry check that also refuses a token at the very instant it expires
refresh_expired_at_or_after(t, expires_at) == t >= expires_at

\* datetime.now(timezone.utc) > expires_at
refresh_expired(t, expires_at) == t > expires_at

\* expiry check, then UPDATE revoked = 1 and commit (both branches revoke)
RefreshRevoke(c) ==
    /\ conn[c].pc = "selected"
    /\ LET record == conn[c].row[1]
       IN /\ refresh_tokens' = revoke_refresh_token(refresh_tokens, record.token_id)
          /\ IF refresh_expired(now, record.expires_at)
             THEN /\ conn' = [conn EXCEPT ![c] = Idle]
                  /\ resp' = HttpError("refresh", conn[c].presented, 401,
                                       "Refresh token has expired")
             ELSE /\ conn' = [conn EXCEPT ![c].pc = "revoked"]
                  /\ UNCHANGED resp
    /\ UNCHANGED <<users, now, rotations, loggedOut>>

\* issue the new pair, INSERT the new row and commit, return the pair
RefreshStore(c) ==
    /\ conn[c].pc = "revoked"
    /\ LET record == conn[c].row[1]
           user == [user_id |-> record.user_id, role |-> record.role,
                    school_id |-> record.school_id]
           new_access_token == _create_access_token(user, now)
           new_refresh_token == _create_refresh_token(refresh_tokens)
           new_expires_at == now + REFRESH_TOKEN_EXPIRE_DAYS * SecondsPerDay
       IN /\ refresh_tokens' = store_refresh_token(refresh_tokens, user.user_id,
                                   _hash_token(new_refresh_token), new_expires_at)
          /\ resp' = HttpOk("refresh", conn[c].presented, 200,
                            Some(TokenResponse(new_access_token, new_refresh_token)))
    /\ conn' = [conn EXCEPT ![c] = Idle]
    /\ rotations' = [t \in DOMAIN rotations \cup {conn[c].presented} |->
                        IF t = conn[c].presented
                        THEN (IF t \in DOMAIN rotations THEN rotations[t] ELSE 0) + 1
                        ELSE rotations[t]]
    /\ UNCHANGED <<users, now, loggedOut>>

\* the INSERT raises (sqlite3.OperationalError) after the revoke was committed:
\* the exception leaves the handler as a 500
RefreshStoreFails(c) ==
    /\ conn[c].pc = "revoked"
    /\ conn' = [conn EXCEPT ![c] = Idle]
    /\ resp' = HttpError("refresh", conn[c].presented, 500, "Internal Server Error")
    /\ UNCHANGED <<users, refresh_tokens, now, rotations, loggedOut>>

\* ---------------------------------------------------------------- logout
\* AuthService.logout: the (success, error) pair and the table it leaves
logout(user_id) ==
    IF ~exists(users, user_id)
    THEN [success |-> FALSE, error |-> Some("User not found"),
          refresh_tokens |-> refresh_tokens]
    ELSE [success |-> TRUE, error |-> None,
          refresh_tokens |-> revoke_all_user_tokens(refresh_tokens, user_id)]

\* POST /auth/logout for the principal user_id: 204, or 400 with the error
LogoutResponse(user_id) ==
    IF logout(user_id).success THEN HttpOk("logout", user_id, 204, None)
    ELSE HttpError("logout", user_id, 400, logout(user_id).error[1])

LogoutEffect(user_id) ==
    /\ refresh_tokens' = logout(user_id).refresh_tokens
    /\ loggedOut' = IF logout(user_id).success
                    THEN loggedOut \cup TokensOf(refresh_tokens, user_id)
                    ELSE loggedOut
    /\ UNCHANGED <<users, now, conn, rotations>>

Logout(user_id) ==
    /\ LogoutEffect(user_id)
    /\ resp' = LogoutResponse(user_id)

\* UserRepository.soft_delete
SoftDelete(user_id) ==
    /\ exists(users, user_id)
    /\ users' = soft_delete(users, user_id)
    /\ UNCHANGED <<refresh_tokens, now, conn, resp, rotations, loggedOut>>

\* the wall clock advances to the instant t
Tick(t) ==
    /\ t > now
    /\ now' = t
    /\ UNCHANGED <<users, refresh_tokens, conn, resp, rotations, loggedOut>>

Next ==
    \/ \E e \in EmailInputs, p \in PasswordInputs : Login(e, p) /\ UNCHANGED observers
    \/ \E c \in Conns, t \in 0..MaxTokens : RefreshSelect(c, t) /\ UNCHANGED observers
    \/ \E c \in Conns : RefreshRevoke(c) /\ UNCHANGED observers
    \/ \E c \in Conns : RefreshStore(c) /\ UNCHANGED observers
    \/ \E c \in Conns : RefreshStoreFails(c) /\ UNCHANGED observers
    \/ \E u \in 1..(Len(users) + 1) : Logout(u) /\ UNCHANGED observers
    \/ \E u \in DOMAIN users : SoftDelete(u) /\ UNCHANGED observers
    \/ \E t \in RefreshInstants : Tick(t) /\ UNCHANGED observers

Spec == Init /\ [][Next]_vars

\* ------------------------------------------------------- login, observed
\* Login with the request and the run of failures before it put on record
LoginCounted(email_in, password) ==
    /\ Login(email_in, password)
    /\ LET email == Lower(email_in)
           before == IF streak.email = email THEN streak.n ELSE 0
       IN /\ loginReq' = [email |-> email, password |-> password, after |-> before]
          /\ streak' = IF resp'.status = 200 THEN NoStreak
                       ELSE [email |-> email,
                             n |-> IF before < MaxStreak THEN before + 1 ELSE MaxStreak]
    /\ UNCHANGED <<authResp, gate, tenant>>

\* instants around the expiry of an access token issued at 0
AccessInstants ==
    {0,
     ACCESS_TOKEN_EXPIRE_MINUTES * SecondsPerMinute - 1,
     ACCESS_TOKEN_EXPIRE_MINUTES * SecondsPerMinute,
     ACCESS_TOKEN_EXPIRE_MINUTES * SecondsPerMinute + 1}

NextLogin ==
    \/ \E e \in EmailInputs, p \in PasswordInputs : LoginCounted(e, p)
    \/ \E u \in DOMAIN users : SoftDelete(u) /\ UNCHANGED observers
    \/ \E t \in AccessInstants : Tick(t) /\ UNCHANGED observers

SpecLogin == Init /\ [][NextLogin]_vars

\* ------------------------------------------------- access token validation
\* the access tokens handed out so far: login and refresh issue one with every
\* refresh_tokens row they insert, for the row's owner, at the row's creation time
IssuedAccessTokens ==
    {_create_access_token(
         [user_id |-> refresh_tokens[i].user_id,
          role |-> users[refresh_tokens[i].user_id].role,
          school_id |-> users[refresh_tokens[i].user_id].school_id],
         refresh_tokens[i].expires_at - REFRESH_TOKEN_EXPIRE_DAYS * SecondsPerDay) :
     i \in DOMAIN refresh_tokens}

\* what a caller can put in the Authorization header: a token it was handed,
\* the same claims signed with another key, claims altered under the old
\* signature, or something that is no JWT
Forged(token) == JwtEncode(token.payload, "some-other-key")
Tampered(token) == [token EXCEPT !.payload.role = ADMIN]
Garbage == [wellformed |-> FALSE, payload |-> None, sig |-> None]
Presentable ==
    IssuedAccessTokens \cup {Forged(a) : a \in IssuedAccessTokens}
        \cup {Tampered(a) : a \in IssuedAccessTokens} \cup {Garbage}

\* a request to a protected endpoint: Depends(get_current_user) on the bearer
\* token. `again` notes that the same token was validated at the same time
\* just before and the tables changed in between, `same` that the outcome
\* did not.
Authenticate(token) ==
    /\ LET outcome == Some(get_current_user(token, now))
           again == /\ authResp.token = Some(token)
                    /\ authResp.at = now
                    /\ authResp.touched
       IN authResp' = [token |-> Some(token), at |-> now, outcome |-> outcome,
                       touched |-> FALSE, again |-> again,
                       same |-> again => authResp.outcome = outcome]
    /\ UNCHANGED <<users, refresh_tokens, now, conn, resp, rotations, loggedOut,
                   streak, loginReq, gate, tenant>>

\* the last validation notes that a table changed after it
Touch ==
    /\ authResp' = [authResp EXCEPT
           !.touched = @ \/ refresh_tokens' # refresh_tokens \/ users' # users]
    /\ UNCHANGED <<streak, loginReq, gate, tenant>>

\* the same requests, with only their effect on the tables kept
NextAccess ==
    \/ \E e \in EmailInputs, p \in PasswordInputs :
           /\ Len(refresh_tokens) < MaxSessions
           /\ LoginEffect(e, p) /\ UNCHANGED resp /\ Touch
    \/ \E u \in DOMAIN users : LogoutEffect(u) /\ UNCHANGED resp /\ Touch
    \/ \E u \in DOMAIN users : SoftDelete(u) /\ Touch
    \/ \E t \in AccessInstants : Tick(t) /\ UNCHANGED observers
    \/ \E a \in Presentable : Authenticate(a)

SpecAccess == Init /\ [][NextAccess]_vars

\* --------------------------------------------------- tenant-ownership gate
SchoolIds == {None} \cup {Some(n) : n \in 1..MaxSchools}

\* the gate's inputs: the caller's claims and the target resource's school
GateInputs ==
    {[user |-> Some([role |-> r, school_id |-> s]), target |-> Some(g), allowed |-> None] :
        r \in UserRole, s \in SchoolIds, g \in SchoolIds}

InitGate ==
    /\ InitTenant
    /\ users = InitialUsers
    /\ refresh_tokens = <<>>
    /\ now = 0
    /\ conn = [c \in Conns |-> Idle]
    /\ resp = NoResponse
    /\ rotations = [t \in {} |-> 0]
    /\ loggedOut = {}
    /\ streak = NoStreak
    /\ loginReq = NoLogin
    /\ authResp = NoAuth
    /\ gate \in GateInputs

\* a handler calls check_school_ownership(current_user, school_id)
CheckOwnership ==
    /\ gate.allowed = None
    /\ gate' = [gate EXCEPT !.allowed =
                   Some(check_school_ownership(gate.user[1], gate.target[1]))]
    /\ UNCHANGED <<users, refresh_tokens, now, conn, resp, rotations, loggedOut,
                   streak, loginReq, authResp, tenant>>

NextGate == CheckOwnership

SpecGate == InitGate /\ [][NextGate]_vars

\* ------------------------------------------------- school-scoped requests
\* the pre-built RoleChecker instances, as their allowed_roles
require_admin == {ADMIN}
require_admin_or_director == {ADMIN, DIRECTOR}
require_admin_director_or_teacher == {ADMIN, DIRECTOR, TEACHER}
require_any_authenticated == {ADMIN, DIRECTOR, TEACHER, PARENT}

\* a RoleChecker that returns current_user whatever its role
RoleChecker_any(allowed_roles, current_user) == TRUE

\* RoleChecker.__call__: TRUE when it returns current_user, FALSE when it raises 403
RoleChecker(allowed_roles, current_user) ==
    IF current_user.role \notin allowed_roles THEN FALSE ELSE TRUE

\* Depends(RoleChecker) over Depends(get_current_user): the 401 or 403
\* raised, or the claims handed to the handler (with the request's token and
\* the instance's allowed_roles kept for the record of the answer)
Authorize(token, allowed_roles) ==
    LET auth == get_current_user(token, now)
    IN IF auth.status # 200
       THEN [status |-> auth.status, detail |-> auth.detail, current_user |-> None,
             bearer |-> token, allowed |-> allowed_roles]
       ELSE IF ~RoleChecker(allowed_roles, auth.payload[1])
       THEN [status |-> HTTP_403_FORBIDDEN,
             detail |-> "You do not have permission to perform this action",
             current_user |-> None, bearer |-> token, allowed |-> allowed_roles]
       ELSE [status |-> 200, detail |-> "", current_user |-> auth.payload,
             bearer |-> token, allowed |-> allowed_roles]

\* the principals of the school-scoped specifications
TenantUsers ==
    << [email |-> "dir@k.io", password_hash |-> _hash_password("pw-dir"),
        role |-> DIRECTOR, school_id |-> Some(1), phone |-> None, is_deleted |-> 0],
       [email |-> "adm@k.io", password_hash |-> _hash_password("pw-adm"),
        role |-> ADMIN, school_id |-> None, phone |-> None, is_deleted |-> 0],
       [email |-> "t1@k.io", password_hash |-> _hash_password("pw-t1"),
        role |-> TEACHER, school_id |-> Some(1), phone |-> None, is_deleted |-> 0],
       [email |-> "t2@k.io", password_hash |-> _hash_password("pw-t2"),
        role |-> TEACHER, school_id |-> Some(2), phone |-> None, is_deleted |-> 0],
       [email |-> "par@k.io", password_hash |-> _hash_password("pw-par"),
        role |-> PARENT, school_id |-> Some(1), phone |-> None, is_deleted |-> 0] >>

\* the access token login issues for principal u at time t
BearerOf(u, t) ==
    _create_access_token([user_id |-> u, role |-> users[u].role,
                          school_id |-> users[u].school_id], t)

\* the bearer tokens requests arrive with
Bearers == {BearerOf(u, 0) : u \in DOMAIN users} \cup {Garbage}

\* the callers of the class endpoints: the director of school 1, the
\* administrator, the teacher of school 1
ClassCallers == {BearerOf(u, 0) : u \in 1..3}

\* the ids named as teacher: a teacher, and a principal that is none
TeacherIds == {1, 3}

\* UserRepository.get_by_id
user_get_by_id(user_id) ==
    IF user_id \in DOMAIN users /\ users[user_id].is_deleted = 0
    THEN Some(users[user_id]) ELSE None

\* an exists that does not filter is_deleted
school_exists_any(school_id) == school_id \in DOMAIN schools

\* SchoolRepository.exists
school_exists(school_id) ==
    school_id \in DOMAIN schools /\ schools[school_id].is_deleted = 0

\* ClassRepository.get_by_id
class_get_by_id(class_id) ==
    IF class_id \in DOMAIN classes /\ classes[class_id].is_deleted = 0
    THEN Some(classes[class_id]) ELSE None

\* StudentRepository.get_by_id
student_get_by_id(student_id) ==
    IF student_id \in DOMAIN students /\ students[student_id].is_deleted = 0
    THEN Some(students[student_id]) ELSE None

\* StudentRepository.get_class_ids: the student's classes that are not deleted
get_class_ids(student_id) ==
    {c \in DOMAIN classes : <<student_id, c>> \in student_classes /\ classes[c].is_deleted = 0}

\* StudentRepository.get_by_class_id: the class's students that are not deleted
get_by_class_id(class_id) ==
    {st \in DOMAIN students : <<st, class_id>> \in student_classes /\ students[st].is_deleted = 0}

\* UserRepository.get_teacher_class_ids: the teacher's classes that are not deleted
get_teacher_class_ids(user_id) ==
    {c \in DOMAIN classes : <<user_id, c>> \in teacher_classes /\ classes[c].is_deleted = 0}

\* UserRepository.get_student_ids_for_parent: the linked students that are not deleted
get_student_ids_for_parent(user_id) ==
    {st \in DOMAIN students : <<st, user_id>> \in student_parents /\ students[st].is_deleted = 0}

\* a TEACHER gate that lets every teacher through
_check_teacher_class_access_open(current_user, class_id) == TRUE

\* _check_teacher_class_access: TRUE when it returns, FALSE when it raises 403
_check_teacher_class_access(current_user, class_id) ==
    IF current_user.role \in {ADMIN, DIRECTOR} THEN TRUE
    ELSE IF current_user.role = TEACHER
         THEN class_id \in get_teacher_class_ids(current_user.sub)
         ELSE TRUE

\* what a handler hands back: the answer and the tables it leaves
Outcome(status, detail, cl, tc, att) ==
    [status |-> status, detail |-> detail, classes |-> cl,
     teacher_classes |-> tc, attendance |-> att]

\* an answer that leaves the tables as they are
Refuse(status, detail) == Outcome(status, detail, classes, teacher_classes, attendance)

\* StudentRepository.get_parent_ids selects sp.parent_id and joins parents:
\* student_parents has no such column and no parents table is created, so
\* building a StudentResponse raises; a ClassResponse builds only for a class
\* with no enrolled student
_build_response_raises(class_id) == get_by_class_id(class_id) # {}

\* --------------------------------------------------------------- classes
\* SchoolRepository.get_capacity
get_capacity(school_id) ==
    IF school_exists(school_id) THEN schools[school_id].capacity ELSE None

\* ClassRepository.update: the keys that are set replace the row's values
class_repo_update(class_id, cls) ==
    [classes EXCEPT ![class_id] =
        [class_name |-> IF cls.class_name # None THEN cls.class_name[1] ELSE @.class_name,
         school_id |-> IF cls.school_id # None THEN cls.school_id[1] ELSE @.school_id,
         capacity |-> IF cls.capacity # None THEN cls.capacity ELSE @.capacity,
         is_deleted |-> @.is_deleted]]

\* update_class after its dependencies: the TEACHER gate, ClassService.update,
\* and the mapping of its error to 404 or 400
update_class(current_user, class_id, cls) ==
    IF ~_check_teacher_class_access(current_user, class_id)
    THEN Refuse(403, "You can only manage classes you are assigned to")
    ELSE IF class_get_by_id(class_id) = None
    THEN Refuse(404, "Class not found")
    ELSE IF cls.school_id # None /\ ~school_exists(cls.school_id[1])
    THEN Refuse(404, "School not found")
    ELSE LET school_id == IF cls.school_id # None THEN cls.school_id[1]
                          ELSE classes[class_id].school_id
             school_capacity == get_capacity(school_id)
         IN IF cls.capacity # None /\ school_capacity # None
                 /\ cls.capacity[1] > school_capacity[1]
            THEN Refuse(400, "Class capacity (" \o ToString(cls.capacity[1])
                             \o ") cannot exceed school capacity ("
                             \o ToString(school_capacity[1]) \o ")")
            ELSE Outcome(IF _build_response_raises(class_id) THEN 500 ELSE 200,
                         IF _build_response_raises(class_id)
                         THEN "Internal Server Error" ELSE "",
                         class_repo_update(class_id, cls), teacher_classes, attendance)

\* ClassRepository.count_active_teachers
count_active_teachers(class_id) ==
    Cardinality({u \in DOMAIN users :
        /\ <<u, class_id>> \in teacher_classes
        /\ users[u].is_deleted = 0
        /\ users[u].role = TEACHER})

\* delete_class after its dependencies: ClassService.delete, and the mapping
\* of its error to 404 or 409
delete_class(current_user, class_id) ==
    LET student_count == Cardinality(get_by_class_id(class_id))
        teacher_count == count_active_teachers(class_id)
        students_part == ToString(student_count) \o " active student(s)"
        teachers_part == ToString(teacher_count) \o " active teacher(s)"
        summary == IF student_count > 0 /\ teacher_count > 0
                   THEN students_part \o " and " \o teachers_part
                   ELSE IF student_count > 0 THEN students_part ELSE teachers_part
    IN IF class_get_by_id(class_id) = None
       THEN Refuse(404, "Class not found")
       ELSE IF student_count > 0 \/ teacher_count > 0
       THEN Refuse(409, "Cannot delete class. It still has " \o summary \o ".")
       ELSE Outcome(204, "", [classes EXCEPT ![class_id].is_deleted = 1],
                    teacher_classes, attendance)

valid_statuses == {"present", "absent", "late", "excused"}

\* record_attendance after its dependencies: the TEACHER gate,
\* ClassService.record_attendance with recorded_by = the caller's sub, and
\* the upsert on (class_id, student_id, attendance_date)
record_attendance(current_user, class_id, student_id, attendance_date, status) ==
    LET recorded_by == current_user.sub
        teacher == user_get_by_id(recorded_by)
        key == <<class_id, student_id, attendance_date>>
        row == [status |-> status, recorded_by |-> recorded_by]
    IN IF ~_check_teacher_class_access(current_user, class_id)
       THEN Refuse(403, "You can only manage classes you are assigned to")
       ELSE IF class_get_by_id(class_id) = None
       THEN Refuse(404, "Class not found")
       ELSE IF student_get_by_id(student_id) = None
       THEN Refuse(404, "Student not found")
       ELSE IF class_id \notin get_class_ids(student_id)
       THEN Refuse(400, "Student is not enrolled in this class")
       ELSE IF teacher = None \/ teacher[1].role # TEACHER
       THEN Refuse(404, "Teacher not found")
       ELSE IF status \notin valid_statuses
       THEN Refuse(400, "Invalid status. Must be one of: present, absent, late, excused")
       ELSE Outcome(200, "", classes, teacher_classes,
                    [k \in DOMAIN attendance \cup {key} |->
                        IF k = key THEN row ELSE attendance[k]])

\* bulk_set_attendance, create_class_event, update_class_event and
\* delete_class_event after their dependencies: the TEACHER gate, then a call
\* of a ClassService method that ClassService does not define
service_method_missing(current_user, class_id) ==
    IF ~_check_teacher_class_access(current_user, class_id)
    THEN Refuse(403, "You can only manage classes you are assigned to")
    ELSE Refuse(500, "Internal Server Error")

\* assign_teacher_to_class after its dependencies
assign_teacher_to_class(current_user, teacher_id, class_id) ==
    LET teacher == user_get_by_id(teacher_id)
    IN IF teacher = None \/ teacher[1].role # TEACHER
       THEN Refuse(404, "Teacher not found")
       ELSE IF class_get_by_id(class_id) = None
       THEN Refuse(404, "Class not found")
       ELSE IF ~check_school_ownership(current_user, teacher[1].school_id)
       THEN Refuse(403, "You do not have access to this school's resources")
       ELSE Outcome(204, "", classes, teacher_classes \cup {<<teacher_id, class_id>>},
                    attendance)

\* unassign_teacher_from_class after its dependencies
unassign_teacher_from_class(current_user, teacher_id, class_id) ==
    LET teacher == user_get_by_id(teacher_id)
    IN IF teacher = None \/ teacher[1].role # TEACHER
       THEN Refuse(404, "Teacher not found")
       ELSE IF class_get_by_id(class_id) = None
       THEN Refuse(404, "Class not found")
       ELSE IF ~check_school_ownership(current_user, teacher[1].school_id)
       THEN Refuse(403, "You do not have access to this school's resources")
       ELSE Outcome(204, "", classes, teacher_classes \ {<<teacher_id, class_id>>},
                    attendance)

\* a handler's answer goes out: the tables it leaves are committed and the
\* answer is recorded together with what the request met (the target class's
\* school, whether a teacher_classes row linked caller and class)
Answer(op, auth, class_id, out) ==
    /\ classes' = out.classes
    /\ teacher_classes' = out.teacher_classes
    /\ attendance' = out.attendance
    /\ reply' = [op |-> op, caller |-> auth.current_user, target |-> class_id,
                 status |-> out.status, detail |-> out.detail,
                 changed |-> <<out.classes, out.attendance>> # <<classes, attendance>>,
                 school |-> IF class_id \in DOMAIN classes
                            THEN Some(classes[class_id].school_id) ELSE None,
                 assigned |-> /\ auth.current_user # None
                              /\ <<auth.current_user[1].sub, class_id>> \in teacher_classes,
                 bearer |-> auth.bearer, allowed |-> auth.allowed, at |-> now,
                 wrote |-> <<out.classes, out.teacher_classes, out.attendance>>
                              # <<classes, teacher_classes, attendance>>]
    /\ UNCHANGED <<schools, students, student_classes, student_parents, enrolling>>
    /\ UNCHANGED <<users, refresh_tokens, now, conn, resp, rotations, loggedOut,
                   streak, loginReq, authResp, gate>>

\* the answer of a dependency that raised
Raised(auth) == Refuse(auth.status, auth.detail)

ClassIds == 1..(Len(InitialClasses) + 1)
ClassUpdates ==
    { [class_name |-> Some("Moon"), school_id |-> None, capacity |-> None],
      [class_name |-> None, school_id |-> Some(Len(InitialSchools) + 1), capacity |-> Some(40)] }
AttendanceDates == {"2024-09-02"}
AttendanceStatuses == {"present", "asleep"}

UpdateClass(token, class_id, cls) ==
    LET auth == Authorize(token, require_admin_director_or_teacher)
    IN Answer("update_class", auth, class_id,
              IF auth.current_user = None THEN Raised(auth)
              ELSE update_class(auth.current_user[1], class_id, cls))

DeleteClass(token, class_id) ==
    LET auth == Authorize(token, require_admin_or_director)
    IN Answer("delete_class", auth, class_id,
              IF auth.current_user = None THEN Raised(auth)
              ELSE delete_class(auth.current_user[1], class_id))

RecordAttendance(token, class_id, student_id, attendance_date, status) ==
    LET auth == Authorize(token, require_admin_director_or_teacher)
    IN Answer("record_attendance", auth, class_id,
              IF auth.current_user = None THEN Raised(auth)
              ELSE record_attendance(auth.current_user[1], class_id, student_id,
                                     attendance_date, status))

BulkSetAttendance(token, class_id) ==
    LET auth == Authorize(token, require_admin_director_or_teacher)
    IN Answer("bulk_set_attendance", auth, class_id,
              IF auth.current_user = None THEN Raised(auth)
              ELSE service_method_missing(auth.current_user[1], class_id))

CreateClassEvent(token, class_id) ==
    LET auth == Authorize(token, require_admin_director_or_teacher)
    IN Answer("create_class_event", auth, class_id,
              IF auth.current_user = None THEN Raised(auth)
              ELSE service_method_missing(auth.current_user[1], class_id))

UpdateClassEvent(token, class_id) ==
    LET auth == Authorize(token, require_admin_director_or_teacher)
    IN Answer("update_class_event", auth, class_id,
              IF auth.current_user = None THEN Raised(auth)
              ELSE service_method_missing(auth.current_user[1], class_id))

DeleteClassEvent(token, class_id) ==
    LET auth == Authorize(token, require_admin_director_or_teacher)
    IN Answer("delete_class_event", auth, class_id,
              IF auth.current_user = None THEN Raised(auth)
              ELSE service_method_missing(auth.current_user[1], class_id))

AssignTeacherToClass(token, teacher_id, class_id) ==
    LET auth == Authorize(token, require_admin_or_director)
    IN Answer("assign_teacher_to_class", auth, class_id,
              IF auth.current_user = None THEN Raised(auth)
              ELSE assign_teacher_to_class(auth.current_user[1], teacher_id, class_id))

UnassignTeacherFromClass(token, teacher_id, class_id) ==
    LET auth == Authorize(token, require_admin_or_director)
    IN Answer("unassign_teacher_from_class", auth, class_id,
              IF auth.current_user = None THEN Raised(auth)
              ELSE unassign_teacher_from_class(auth.current_user[1], teacher_id, class_id))

InitClass ==
    /\ InitTenant
    /\ users = TenantUsers
    /\ refresh_tokens = <<>>
    /\ now = 0
    /\ conn = [c \in Conns |-> Idle]
    /\ resp = NoResponse
    /\ rotations = [t \in {} |-> 0]
    /\ loggedOut = {}
    /\ streak = NoStreak
    /\ loginReq = NoLogin
    /\ authResp = NoAuth
    /\ gate = NoGate

NextClass ==
    \/ \E k \in ClassCallers, c \in ClassIds, u \in ClassUpdates : UpdateClass(k, c, u)
    \/ \E k \in ClassCallers, c \in ClassIds : DeleteClass(k, c)
    \/ \E k \in ClassCallers, c \in ClassIds, st \in DOMAIN students,
          d \in AttendanceDates, a \in AttendanceStatuses :
          RecordAttendance(k, c, st, d, a)
    \/ \E k \in ClassCallers, c \in ClassIds : BulkSetAttendance(k, c)
    \/ \E k \in ClassCallers, c \in ClassIds : CreateClassEvent(k, c)
    \/ \E k \in ClassCallers, c \in ClassIds : UpdateClassEvent(k, c)
    \/ \E k \in ClassCallers, c \in ClassIds : DeleteClassEvent(k, c)
    \/ \E k \in ClassCallers, t \in TeacherIds, c \in ClassIds : AssignTeacherToClass(k, t, c)
    \/ \E k \in ClassCallers, t \in TeacherIds, c \in ClassIds : UnassignTeacherFromClass(k, t, c)

SpecClass == InitClass /\ [][NextClass]_vars

\* ------------------------------------------------------------------ reads
\* what a read handler hands back; data is the set of resources the body
\* carries, each as <<kind, id>>
Found(status, detail, data) == [status |-> status, detail |-> detail, data |-> data]

\* the unhandled exception of a handler, as the server answers it
InternalServerError == Found(500, "Internal Server Error", {})

\* a PARENT gate on students that lets every parent through
_check_parent_student_access_open(current_user, student_id) == TRUE

\* _check_parent_student_access: TRUE when it returns, FALSE when it raises 403
_check_parent_student_access(current_user, student_id) ==
    IF current_user.role # PARENT THEN TRUE
    ELSE IF student_id \notin get_student_ids_for_parent(current_user.sub) THEN FALSE
    ELSE TRUE

\* _check_parent_class_access: TRUE when it returns, FALSE when it raises 403
_check_parent_class_access(current_user, class_id) ==
    IF current_user.role # PARENT THEN TRUE
    ELSE \E sid \in get_student_ids_for_parent(current_user.sub) :
             class_id \in get_class_ids(sid)

\* GET /students/{student_id}: StudentService.get_by_id builds a
\* StudentResponse for the row it finds, which raises in get_parent_ids
get_student(current_user, student_id) ==
    IF ~_check_parent_student_access(current_user, student_id)
    THEN Found(403, "You can only view information about your own children", {})
    ELSE IF student_get_by_id(student_id) = None
    THEN Found(404, "Student not found", {})
    ELSE InternalServerError

\* GET /classes/{class_id}
get_class(current_user, class_id) ==
    IF current_user.role = PARENT /\ ~_check_parent_class_access(current_user, class_id)
    THEN Found(403, "You can only view classes your children are enrolled in", {})
    ELSE IF class_get_by_id(class_id) = None
    THEN Found(404, "Class not found", {})
    ELSE IF _build_response_raises(class_id)
    THEN InternalServerError
    ELSE IF /\ current_user.role # PARENT
            /\ ~check_school_ownership(current_user, Some(classes[class_id].school_id))
    THEN Found(403, "You do not have access to this school's resources", {})
    ELSE Found(200, "", {<<"class", class_id>>}
                            \cup {<<"student", st>> : st \in get_by_class_id(class_id)})

\* GET /classes/{class_id}/events and GET /classes/{class_id}/events/{event_id}:
\* ClassService has no get_events_by_class_id and no get_event_by_id, so the
\* call after the PARENT gate raises AttributeError
get_class_events(current_user, class_id) ==
    IF current_user.role = PARENT /\ ~_check_parent_class_access(current_user, class_id)
    THEN Found(403, "You can only view classes your children are enrolled in", {})
    ELSE InternalServerError

\* GET /parents/me/children: the rows of the caller's linked students
get_my_children(current_user) ==
    IF current_user.role # PARENT
    THEN Found(403, "Only parents can access this endpoint", {})
    ELSE Found(200, "", {<<"student", sid>> :
                            sid \in {s \in get_student_ids_for_parent(current_user.sub) :
                                        student_get_by_id(s) # None}})

\* GET /teachers/{teacher_id}
get_teacher(current_user, teacher_id) ==
    LET teacher == user_get_by_id(teacher_id)
    IN IF teacher = None \/ teacher[1].role # TEACHER
       THEN Found(404, "Teacher not found", {})
       ELSE IF current_user.role = TEACHER /\ current_user.sub # teacher_id
       THEN Found(403, "You can only view your own profile", {})
       ELSE IF ~check_school_ownership(current_user, teacher[1].school_id)
       THEN Found(403, "You do not have access to this school's resources", {})
       ELSE Found(200, "", {<<"user", teacher_id>>})

\* GET /parents/{parent_id}
get_parent(current_user, parent_id) ==
    LET parent == user_get_by_id(parent_id)
    IN IF parent = None \/ parent[1].role # PARENT
       THEN Found(404, "Parent not found", {})
       ELSE IF current_user.role = PARENT /\ current_user.sub # parent_id
       THEN Found(403, "You can only view your own profile", {})
       ELSE IF ~check_school_ownership(current_user, parent[1].school_id)
       THEN Found(403, "You do not have access to this school's resources", {})
       ELSE Found(200, "", {<<"user", parent_id>>})

\* Depends(get_current_user) alone: the 401 raised, or the claims handed to
\* the handler; no RoleChecker stands before it, so every role passes
Authenticated(token) ==
    LET auth == get_current_user(token, now)
    IN IF auth.status # 200
       THEN [status |-> auth.status, detail |-> auth.detail, current_user |-> None,
             bearer |-> token, allowed |-> UserRole]
       ELSE [status |-> 200, detail |-> "", current_user |-> auth.payload,
             bearer |-> token, allowed |-> UserRole]

\* a read's answer goes out: no table changes and the answer is recorded
Reads(op, auth, target, out) ==
    /\ reply' = [op |-> op, caller |-> auth.current_user, target |-> target,
                 status |-> out.status, detail |-> out.detail, changed |-> FALSE,
                 school |-> None, assigned |-> FALSE, data |-> out.data,
                 bearer |-> auth.bearer, allowed |-> auth.allowed, at |-> now,
                 wrote |-> FALSE]
    /\ UNCHANGED <<schools, classes, teacher_classes, students, student_classes,
                   student_parents, attendance, enrolling>>
    /\ UNCHANGED <<users, refresh_tokens, now, conn, resp, rotations, loggedOut,
                   streak, loginReq, authResp, gate>>

\* the answer of a dependency that raised, for a read
RaisedRead(auth) == Found(auth.status, auth.detail, {})

GetStudent(token, student_id) ==
    LET auth == Authenticated(token)
    IN Reads("get_student", auth, student_id,
             IF auth.current_user = None THEN RaisedRead(auth)
             ELSE get_student(auth.current_user[1], student_id))

GetClass(token, class_id) ==
    LET auth == Authenticated(token)
    IN Reads("get_class", auth, class_id,
             IF auth.current_user = None THEN RaisedRead(auth)
             ELSE get_class(auth.current_user[1], class_id))

GetClassEvents(token, class_id) ==
    LET auth == Authenticated(token)
    IN Reads("get_class_events", auth, class_id,
             IF auth.current_user = None THEN RaisedRead(auth)
             ELSE get_class_events(auth.current_user[1], class_id))

GetClassEventById(token, class_id) ==
    LET auth == Authenticated(token)
    IN Reads("get_class_event_by_id", auth, class_id,
             IF auth.current_user = None THEN RaisedRead(auth)
             ELSE get_class_events(auth.current_user[1], class_id))

GetMyChildren(token) ==
    LET auth == Authenticated(token)
    IN Reads("get_my_children", auth, 0,
             IF auth.current_user = None THEN RaisedRead(auth)
             ELSE get_my_children(auth.current_user[1]))

GetTeacher(token, teacher_id) ==
    LET auth == Authorize(token, require_admin_director_or_teacher)
    IN Reads("get_teacher", auth, teacher_id,
             IF auth.current_user = None THEN RaisedRead(auth)
             ELSE get_teacher(auth.current_user[1], teacher_id))

GetParent(token, parent_id) ==
    LET auth == Authenticated(token)
    IN Reads("get_parent", auth, parent_id,
             IF auth.current_user = None THEN RaisedRead(auth)
             ELSE get_parent(auth.current_user[1], parent_id))

\* the tables the reads meet: two students of school 1, the first possibly
\* soft-deleted; the second class possibly soft-deleted; any links of the
\* students to the parent; enrolments of the students
ReadStudents ==
    { << [school_id |-> 1, is_deleted |-> d], [school_id |-> 1, is_deleted |-> 0] >> :
        d \in {0, 1} }
ReadClasses ==
    { [InitialClasses EXCEPT ![Len(InitialClasses)].is_deleted = d] : d \in {0, 1} }
ParentId == Len(TenantUsers)
ReadLinks == SUBSET {<<st, ParentId>> : st \in 1..2}
ReadEnrolments == SUBSET {<<1, 1>>, <<2, 1>>, <<2, 2>>}
StudentIds == 1..3
UserIds == 1..(Len(TenantUsers) + 1)

InitRead ==
    /\ schools = InitialSchools
    /\ classes \in ReadClasses
    /\ teacher_classes = {}
    /\ students \in ReadStudents
    /\ student_classes \in ReadEnrolments
    /\ student_parents \in ReadLinks
    /\ enrolling = [c \in Conns |-> NotEnrolling]
    /\ attendance = [k \in {} |-> 0]
    /\ reply = NoReply
    /\ users = TenantUsers
    /\ refresh_tokens = <<>>
    /\ now = 0
    /\ conn = [c \in Conns |-> Idle]
    /\ resp = NoResponse
    /\ rotations = [t \in {} |-> 0]
    /\ loggedOut = {}
    /\ streak = NoStreak
    /\ loginReq = NoLogin
    /\ authResp = NoAuth
    /\ gate = NoGate

NextRead ==
    \/ \E k \in Bearers, st \in StudentIds : GetStudent(k, st)
    \/ \E k \in Bearers, c \in ClassIds : GetClass(k, c)
    \/ \E k \in Bearers, c \in ClassIds : GetClassEvents(k, c)
    \/ \E k \in Bearers, c \in ClassIds : GetClassEventById(k, c)
    \/ \E k \in Bearers : GetMyChildren(k)
    \/ \E k \in Bearers, u \in UserIds : GetTeacher(k, u)
    \/ \E k \in Bearers, u \in UserIds : GetParent(k, u)

SpecRead == InitRead /\ [][NextRead]_vars

\* -------------------------------------------------------------- role gate
\* SchoolService.delete: count_active_teachers and count_active_parents query
\* the teachers and parents tables, which init_db drops, so the delete of a
\* school that exists raises before soft_delete
delete_school(current_user, school_id) ==
    IF ~school_exists(school_id) THEN Found(404, "School not found", {})
    ELSE InternalServerError

DeleteSchool(token, school_id) ==
    LET auth == Authorize(token, require_admin)
    IN Reads("delete_school", auth, school_id,
             IF auth.current_user = None THEN RaisedRead(auth)
             ELSE delete_school(auth.current_user[1], school_id))

\* the tokens the role-gated endpoints are called with: one per principal,
\* the director's re-signed with another key or with its role rewritten, and
\* a string that is no token
RoleCallers ==
    Bearers \cup {Forged(BearerOf(1, 0)), Tampered(BearerOf(1, 0))}

RoleClassIds == {2}

NextRole ==
    \/ \E k \in RoleCallers, c \in RoleClassIds, u \in ClassUpdates : UpdateClass(k, c, u)
    \/ \E k \in RoleCallers, c \in RoleClassIds : DeleteClass(k, c)
    \/ \E k \in RoleCallers, t \in TeacherIds, c \in RoleClassIds :
           AssignTeacherToClass(k, t, c)
    \/ \E k \in RoleCallers, sc \in DOMAIN schools : DeleteSchool(k, sc)
    \/ \E k \in RoleCallers, u \in TeacherIds : GetTeacher(k, u)
    \/ \E t \in AccessInstants : Tick(t) /\ UNCHANGED observers

SpecRole == InitClass /\ [][NextRole]_vars

\* ------------------------------------------------------------- enrollment
\* ClassRepository.get_current_student_count: enrolled students not deleted
get_current_student_count(class_id) == Cardinality(get_by_class_id(class_id))

\* ClassRepository.check_capacity_available: TRUE when (True, None) comes back
check_capacity_available(class_id, additional_students) ==
    IF class_get_by_id(class_id) = None THEN FALSE
    ELSE IF classes[class_id].capacity = None THEN TRUE
    ELSE IF get_current_student_count(class_id) + additional_students
                > classes[class_id].capacity[1]
    THEN FALSE
    ELSE TRUE

\* the answer about an enroll_in_class call: the router answers 404 to an
\* error that holds "not found" and 409 to any other
EnrollAnswer(class_id, status, detail) ==
    [op |-> "enroll_in_class", caller |-> None, target |-> class_id,
     status |-> status, detail |-> detail, changed |-> FALSE, school |-> None,
     assigned |-> FALSE]

\* StudentService.enroll_in_class, as a caller of the service runs it, up to
\* its capacity check: the SELECTs that come before the INSERT, each on the
\* committed tables
EnrollCheck(c, student_id, class_id) ==
    /\ enrolling[c].pc = "idle"
    /\ IF student_get_by_id(student_id) = None
       THEN /\ reply' = EnrollAnswer(class_id, 404, "Student not found")
            /\ UNCHANGED enrolling
       ELSE IF class_get_by_id(class_id) = None
       THEN /\ reply' = EnrollAnswer(class_id, 404, "Class not found")
            /\ UNCHANGED enrolling
       ELSE IF <<student_id, class_id>> \in student_classes
       THEN /\ reply' = EnrollAnswer(class_id, 409,
                                    "Student is already enrolled in this class")
            /\ UNCHANGED enrolling
       ELSE IF ~check_capacity_available(class_id, 1)
       THEN /\ reply' = EnrollAnswer(class_id, 409, "Class capacity exceeded")
            /\ UNCHANGED enrolling
       ELSE /\ enrolling' = [enrolling EXCEPT ![c] =
                                [pc |-> "checked", student_id |-> student_id,
                                 class_id |-> class_id]]
            /\ UNCHANGED reply
    /\ UNCHANGED <<schools, classes, teacher_classes, students, student_classes,
                   student_parents, attendance>>
    /\ UNCHANGED <<users, refresh_tokens, now, conn, resp, rotations, loggedOut,
                   streak, loginReq, authResp, gate>>

\* StudentRepository.enroll_in_class: INSERT OR IGNORE and commit; building
\* the StudentResponse then raises in get_parent_ids, so the accepted
\* enrollment is answered 500 with the row committed
EnrollInsert(c) ==
    /\ enrolling[c].pc = "checked"
    /\ student_classes' =
           student_classes \cup {<<enrolling[c].student_id, enrolling[c].class_id>>}
    /\ reply' = EnrollAnswer(enrolling[c].class_id, 500, "Internal Server Error")
    /\ enrolling' = [enrolling EXCEPT ![c] = NotEnrolling]
    /\ UNCHANGED <<schools, classes, teacher_classes, students, student_parents,
                   attendance>>
    /\ UNCHANGED <<users, refresh_tokens, now, conn, resp, rotations, loggedOut,
                   streak, loginReq, authResp, gate>>

\* POST /students/{student_id}/classes/{class_id}: the router first calls
\* StudentService.get_by_id, which builds a StudentResponse for the row it
\* finds and so raises; the request never reaches
\* StudentService.enroll_in_class
enroll_in_class(current_user, student_id, class_id) ==
    IF student_get_by_id(student_id) = None THEN Found(404, "Student not found", {})
    ELSE InternalServerError

EnrollInClass(token, student_id, class_id) ==
    LET auth == Authorize(token, require_admin_director_or_teacher)
    IN Reads("enroll_in_class", auth, class_id,
             IF auth.current_user = None THEN RaisedRead(auth)
             ELSE enroll_in_class(auth.current_user[1], student_id, class_id))

\* a school with one student more than its first class takes
EnrollStudents == [st \in 1..(ClassCapacity + 1) |-> [school_id |-> 1, is_deleted |-> 0]]
EnrollClasses == [InitialClasses EXCEPT ![1].capacity = Some(ClassCapacity)]

InitEnroll ==
    /\ schools = InitialSchools
    /\ classes = EnrollClasses
    /\ teacher_classes = {}
    /\ students = EnrollStudents
    /\ student_classes = {}
    /\ student_parents = {}
    /\ attendance = [k \in {} |-> 0]
    /\ reply = NoReply
    /\ enrolling = [c \in Conns |-> NotEnrolling]
    /\ users = TenantUsers
    /\ refresh_tokens = <<>>
    /\ now = 0
    /\ conn = [c \in Conns |-> Idle]
    /\ resp = NoResponse
    /\ rotations = [t \in {} |-> 0]
    /\ loggedOut = {}
    /\ streak = NoStreak
    /\ loginReq = NoLogin
    /\ authResp = NoAuth
    /\ gate = NoGate

NextEnroll ==
    \/ \E c \in Conns, st \in 1..(Len(EnrollStudents) + 1), cl \in ClassIds :
           EnrollCheck(c, st, cl)
    \/ \E c \in Conns : EnrollInsert(c)
    \/ \E k \in ClassCallers, st \in 1..(Len(EnrollStudents) + 1), cl \in ClassIds :
           EnrollInClass(k, st, cl)

SpecEnroll == InitEnroll /\ [][NextEnroll]_vars

\* ---------------------------------------------------------------- register
\* a register that takes any school_id, absent ones included
register_any_school(data) ==
    [status |-> 201, detail |-> "",
     users |-> Append(users, [email |-> data.email,
                              password_hash |-> _hash_password(data.password),
                              role |-> data.role, school_id |-> data.school_id,
                              phone |-> None, is_deleted |-> 0])]

\* AuthService.register with the router's mapping of its error: "not found"
\* in the error gives 404, any other error 400. The INSERT of
\* UserRepository.create raises sqlite3.IntegrityError when a row of any
\* is_deleted holds the email (email is UNIQUE) or when school_id names no
\* row of schools (foreign key), and the request ends in 500
register(data) ==
    IF get_by_email(users, data.email) # None
    THEN [status |-> 400, detail |-> "Email already registered", users |-> users]
    ELSE IF data.role # ADMIN /\ data.school_id = None
    THEN [status |-> 400, detail |-> "school_id is required for " \o data.role \o " role",
          users |-> users]
    ELSE IF data.role # ADMIN /\ ~school_exists(data.school_id[1])
    THEN [status |-> 404, detail |-> "School not found", users |-> users]
    ELSE IF \/ \E i \in DOMAIN users : users[i].email = data.email
            \/ data.school_id # None /\ data.school_id[1] \notin DOMAIN schools
    THEN [status |-> 500, detail |-> "Internal Server Error", users |-> users]
    ELSE [status |-> 201, detail |-> "",
          users |-> Append(users, [email |-> data.email,
                                   password_hash |-> _hash_password(data.password),
                                   role |-> data.role, school_id |-> data.school_id,
                                   phone |-> None, is_deleted |-> 0])]

\* UserRegister after validation: the email lower-cased
UserRegister(email, role, school_id) ==
    [email |-> Lower(email), password |-> "pw-new1", role |-> role, school_id |-> school_id]

\* POST /api/v1/auth/register
Register(email, role, school_id) ==
    LET data == UserRegister(email, role, school_id)
        out == register(data)
    IN /\ users' = out.users
       /\ resp' = IF out.status = 201
                  THEN HttpOk("register", data, 201,
                              Some([user_id |-> Len(out.users), email |-> data.email,
                                    role |-> data.role, school_id |-> data.school_id]))
                  ELSE HttpError("register", data, out.status, out.detail)
       /\ UNCHANGED <<refresh_tokens, now, conn, rotations, loggedOut>>

\* UserRepository.update_contact_info (phone only)
update_contact_info(us, user_id, phone) ==
    IF ~exists(us, user_id) THEN us
    ELSE [us EXCEPT ![user_id].phone = IF phone # None THEN phone ELSE @]

UpdateContactInfo(user_id, phone) ==
    /\ users' = update_contact_info(users, user_id, phone)
    /\ users' # users
    /\ UNCHANGED <<refresh_tokens, now, conn, resp, rotations, loggedOut>>

RegisterEmails == {"DIR@k.io", "new@k.io"}
RegisterRoles == {ADMIN, TEACHER}
RegisterSchools == {None, Some(1), Some(Len(InitialSchools)), Some(Len(InitialSchools) + 1)}
PhoneInputs == {Some("555-0100")}

\* register next to the other operations on principals and their sessions
\* (one session at a time)
NextRegister ==
    \/ \E e \in RegisterEmails, r \in RegisterRoles, g \in RegisterSchools :
          Register(e, r, g) /\ UNCHANGED observers
    \/ \E e \in EmailInputs, p \in PasswordInputs :
          /\ refresh_tokens = <<>>
          /\ LoginEffect(e, p) /\ UNCHANGED resp /\ UNCHANGED observers
    \/ \E t \in 1..MaxSessions :
          /\ Len(refresh_tokens) < MaxSessions
          /\ RefreshSelect("c1", t) /\ UNCHANGED observers
    \/ RefreshRevoke("c1") /\ UNCHANGED observers
    \/ RefreshStore("c1") /\ UNCHANGED observers
    \/ \E u \in DOMAIN users : LogoutEffect(u) /\ UNCHANGED resp /\ UNCHANGED observers
    \/ \E u \in DOMAIN users : SoftDelete(u) /\ UNCHANGED observers
    \/ \E u \in DOMAIN users, ph \in PhoneInputs :
          UpdateContactInfo(u, ph) /\ UNCHANGED observers

SpecRegister == Init /\ [][NextRegister]_vars

\* ----------------------------------------------------- refresh-token expiry
\* the instants around the end of a refresh-token lifetime
ExpiryInstants == {0,
                   REFRESH_TOKEN_EXPIRE_DAYS * SecondsPerDay - 1,
                   REFRESH_TOKEN_EXPIRE_DAYS * SecondsPerDay,
                   REFRESH_TOKEN_EXPIRE_DAYS * SecondsPerDay + 1}

\* logins and refreshes, one refresh at a time, while the clock passes the
\* end of the lifetime of the tokens issued at the start
NextExpiry ==
    \/ \E e \in EmailInputs, p \in PasswordInputs :
          /\ Len(refresh_tokens) < MaxSessions
          /\ Login(e, p) /\ UNCHANGED observers
    \/ \E t \in 0..MaxTokens : RefreshSelect("c1", t) /\ UNCHANGED observers
    \/ RefreshRevoke("c1") /\ UNCHANGED observers
    \/ RefreshStore("c1") /\ UNCHANGED observers
    \/ \E t \in ExpiryInstants : Tick(t) /\ UNCHANGED observers

SpecExpiry == Init /\ [][NextExpiry]_vars

\* ---------------------------------------------------------------- sessions
\* logins, refreshes one at a time, logouts (also of an id that names no
\* principal), soft deletes and the passing of a refresh-token lifetime
NextSession ==
    \/ \E e \in EmailInputs, p \in PasswordInputs : Login(e, p) /\ UNCHANGED observers
    \/ \E t \in 0..MaxTokens : RefreshSelect("c1", t) /\ UNCHANGED observers
    \/ RefreshRevoke("c1") /\ UNCHANGED observers
    \/ RefreshStore("c1") /\ UNCHANGED observers
    \/ \E u \in 1..(Len(users) + 1) : Logout(u) /\ UNCHANGED observers
    \/ \E u \in DOMAIN users : SoftDelete(u) /\ UNCHANGED observers
    \/ \E t \in RefreshInstants : Tick(t) /\ UNCHANGED observers

SpecSession == Init /\ [][NextSession]_vars

\* ================================================================ claims
\* a refresh call presenting t starts in this step: its SELECT runs
RefreshCallStarts(t) ==
    \E c \in Conns :
        /\ conn[c].pc = "idle"
        /\ \/ conn'[c].pc = "selected" /\ conn'[c].presented = t
           \/ conn' = conn /\ resp' # resp /\ resp'.op = "refresh" /\ resp'.arg = t

\* ... and is answered at once with the authentication failure, nothing issued
RefreshCallFailsAtOnce(t) ==
    /\ conn' = conn
    /\ refresh_tokens' = refresh_tokens
    /\ resp' = HttpError("refresh", t, 401, "Invalid or expired refresh token")

\* the row that stores raw refresh token t
RowOf(t) == CHOOSE i \in DOMAIN refresh_tokens : refresh_tokens[i].token_hash = _hash_token(t)

\* C1: once a refresh call has returned a new pair for token t, every refresh
\* call that starts later with the same t is answered 401 and issues nothing,
\* whatever logins, other refreshes, logouts happened in between.
C1_RotatedTokenNeverRotatesAgain ==
    [][\A t \in DOMAIN rotations : RefreshCallStarts(t) => RefreshCallFailsAtOnce(t)]_vars

\* C1 witness: a refresh of an already rotated token has just been refused
C1_Witness ==
    /\ resp = HttpError("refresh", resp.arg, 401, "Invalid or expired refresh token")
    /\ resp.arg \in DOMAIN rotations

\* C2: of the refresh calls that present one and the same refresh token, also
\* concurrently on separate connections, at most one returns a new token pair.
C2_AtMostOneConcurrentRefreshWins ==
    \A t \in DOMAIN rotations : rotations[t] <= 1

\* C3: after logout(p) has succeeded, every refresh call that starts with a
\* token issued to p before that logout is answered 401 and issues nothing.
C3_LogoutKillsIssuedTokens ==
    [][\A t \in loggedOut : RefreshCallStarts(t) => RefreshCallFailsAtOnce(t)]_vars

\* C3 witness: a token that no refresh ever consumed is refused after its
\* owner's logout
C3_Witness ==
    /\ resp = HttpError("refresh", resp.arg, 401, "Invalid or expired refresh token")
    /\ resp.arg \in loggedOut
    /\ resp.arg \notin DOMAIN rotations
    /\ users[refresh_tokens[RowOf(resp.arg)].user_id].is_deleted = 0

\* C4: refresh revokes the presented row and stores its replacement as one
\* atomic step: when a refresh has ended in an error after a failure between
\* the two writes, the store holds a replacement row for the session.
C4_RevokeAndStoreAreAtomic ==
    (resp.op = "refresh" /\ resp.status = 500) =>
        (refresh_tokens[RowOf(resp.arg)].revoked = 1 =>
            \E j \in DOMAIN refresh_tokens :
                /\ j > RowOf(resp.arg)
                /\ refresh_tokens[j].user_id = refresh_tokens[RowOf(resp.arg)].user_id)

\* C5: the revoked flag of a refresh-token row only goes from 0 to 1, and no
\* row is removed or changes owner or hash, under login, refresh, logout and
\* soft-delete.
C5_RevokedIsOneWay ==
    [][/\ Len(refresh_tokens') >= Len(refresh_tokens)
       /\ \A i \in DOMAIN refresh_tokens :
             /\ refresh_tokens'[i].user_id = refresh_tokens[i].user_id
             /\ refresh_tokens'[i].token_hash = refresh_tokens[i].token_hash
             /\ (refresh_tokens[i].revoked = 1 => refresh_tokens'[i].revoked = 1)]_vars

\* C5 witness: a revoked row is still there, revoked, after later logins and
\* the owner's soft-delete
C5_Witness ==
    \E i \in DOMAIN refresh_tokens :
        /\ refresh_tokens[i].revoked = 1
        /\ users[refresh_tokens[i].user_id].is_deleted = 1
        /\ Len(refresh_tokens) = MaxTokens

\* the principal the last login request named, with its password
Holder(i) ==
    /\ users[i].is_deleted = 0
    /\ users[i].email = loginReq.email
    /\ users[i].password_hash = _hash_password(loginReq.password)

\* a login request is answered in this step
LoginStep == loginReq' # loginReq \/ streak' # streak

\* C6: login answers "Invalid email or password" / 401 both when no principal
\* has the email and when the password is wrong; a run of failed logins for an
\* email gets that same answer each time, creates no refresh-token row, and a
\* login with the right password after it still succeeds.
C6_LoginFailuresAreGeneric ==
    /\ [](resp.op = "login" /\ resp.status # 200 =>
            /\ resp.status = 401
            /\ resp.detail = "Invalid email or password"
            /\ resp.body = None)
    /\ []((resp.op = "login" /\ loginReq.after >= 1 /\ \E i \in DOMAIN users : Holder(i))
            => resp.status = 200)
    /\ [][(LoginStep /\ resp'.status # 200) => refresh_tokens' = refresh_tokens]_vars

\* C6 witness: a login succeeds right after a full run of wrong-password
\* logins for the same, existing email
C6_Witness ==
    /\ resp.op = "login"
    /\ resp.status = 200
    /\ loginReq.after >= 3
    /\ Len(refresh_tokens) = 1

\* C7: for every registered, non-deleted principal, login with its email and
\* password succeeds, and the access token it returns decodes, while valid, to
\* sub, role and school_id of the stored principal.
C7_LoginClaimsMatchPrincipal ==
    \A i \in DOMAIN users :
        (resp.op = "login" /\ Holder(i)) =>
            /\ resp.status = 200
            /\ \A t \in AccessInstants :
                  LET token == resp.body[1].access_token
                      payload == decode_access_token(token, t)
                  IN (token.payload.iat <= t /\ t < token.payload.exp) =>
                        /\ payload # None
                        /\ payload[1].sub = i
                        /\ payload[1].role = users[i].role
                        /\ payload[1].school_id = users[i].school_id

\* C7 witness: a principal with a school has logged in, and time has passed
\* while the token is still valid
C7_Witness ==
    \E i \in DOMAIN users :
        /\ resp.op = "login"
        /\ resp.status = 200
        /\ Holder(i)
        /\ users[i].school_id # None
        /\ resp.body[1].access_token.payload.iat < now
        /\ now < resp.body[1].access_token.payload.exp

\* C8: an access token is issued with exp = iat + 900 s, the expires_in of the
\* response; get_current_user answers 401 for it at every time after exp
\* though its signature is valid; malformed, wrongly signed and expired tokens
\* all get one and the same 401.
C8_ExpiredAccessTokenRejected ==
    /\ \A a \in IssuedAccessTokens :
          /\ a.payload.exp = a.payload.iat + 900
          /\ TokenResponse(a, 0).expires_in = 900
    /\ authResp.token # None =>
          /\ (authResp.token[1] \in IssuedAccessTokens
                 /\ authResp.at > authResp.token[1].payload.exp)
                => authResp.outcome[1].status = 401
          /\ authResp.token[1] \notin IssuedAccessTokens
                => authResp.outcome[1].status = 401
          /\ authResp.outcome[1].status # 200
                => authResp.outcome[1] =
                       [status |-> 401, detail |-> "Invalid or expired access token",
                        headers |-> "WWW-Authenticate: Bearer", payload |-> None]

\* C8 witness: an issued token is refused after its exp
C8_Witness ==
    /\ authResp.token # None
    /\ authResp.token[1] \in IssuedAccessTokens
    /\ authResp.at > authResp.token[1].payload.exp
    /\ authResp.outcome[1].status = 401

\* C9: whether get_current_user accepts a token depends on the token and the
\* time alone: validated again at the same time after the tables changed
\* (logout, revocation, soft-delete of the principal), it gets the same
\* outcome and the same claims.
C9_ValidationIgnoresStore ==
    authResp.again => authResp.same

\* C9 witness: a token is accepted again, with the tables changed, after its
\* principal was soft-deleted and every refresh token revoked
C9_Witness ==
    /\ authResp.again
    /\ authResp.outcome[1].status = 200
    /\ users[authResp.outcome[1].payload[1].sub].is_deleted = 1
    /\ \A i \in DOMAIN refresh_tokens : refresh_tokens[i].revoked = 1

ClassMutations == {"update_class", "delete_class", "record_attendance",
                   "bulk_set_attendance", "create_class_event",
                   "update_class_event", "delete_class_event"}

\* C11: a DIRECTOR or TEACHER whose school_id claim differs from the school_id
\* of a class never changes it: each update_class, delete_class, attendance or
\* event mutation on that class by such a caller is answered 403 and leaves
\* the class and its attendance unchanged.
C11_ForeignSchoolCannotChangeClass ==
    (/\ reply.op \in ClassMutations
     /\ reply.caller # None
     /\ reply.caller[1].role \in {DIRECTOR, TEACHER}
     /\ reply.school # None
     /\ reply.caller[1].school_id # reply.school)
        => (reply.status = 403 /\ ~reply.changed)

\* a register request is answered in this step
RegisterStep == resp' # resp /\ resp'.op = "register"

\* a principal that is not soft-deleted holds the email
LiveHolder(email) == \E i \in DOMAIN users : users[i].email = email /\ users[i].is_deleted = 0

\* C12: register with a role other than ADMIN fails with "school_id is
\* required for <role> role" when school_id is absent and with "School not
\* found" when school_id names no existing, non-deleted school, and creates
\* no principal in either case; register with role ADMIN and no school_id
\* succeeds.
C12_RegisterSchoolValidation ==
    [][RegisterStep =>
        LET data == resp'.arg
            absent == data.school_id = None
            unknown == /\ data.school_id # None
                       /\ ~(/\ data.school_id[1] \in DOMAIN schools
                            /\ schools[data.school_id[1]].is_deleted = 0)
        IN /\ (data.role # ADMIN /\ (absent \/ unknown)) =>
                  /\ resp'.status \in {400, 404}
                  /\ resp'.body = None
                  /\ users' = users
           /\ (data.role # ADMIN /\ absent /\ ~LiveHolder(data.email)) =>
                  resp'.detail = "school_id is required for " \o data.role \o " role"
           /\ (data.role # ADMIN /\ unknown /\ ~LiveHolder(data.email)) =>
                  resp'.detail = "School not found"
           /\ (data.role = ADMIN /\ absent
                 /\ ~\E i \in DOMAIN users : users[i].email = data.email) =>
                  /\ resp'.status = 201
                  /\ Len(users') = Len(users) + 1
                  /\ users'[Len(users')].email = data.email
                  /\ users'[Len(users')].role = ADMIN
                  /\ users'[Len(users')].school_id = None
    ]_vars

\* C12 witness: a TEACHER registration naming the soft-deleted school was
\* answered "School not found"
C12_Witness ==
    /\ resp.op = "register"
    /\ resp.arg.role = TEACHER
    /\ resp.arg.school_id = Some(3)
    /\ schools[3].is_deleted = 1
    /\ resp.detail = "School not found"
    /\ Len(users) = Len(InitialUsers)

\* C13: in every state reached through register, login, refresh, logout,
\* contact-info update and soft-delete, every stored principal whose role is
\* not ADMIN has a non-null school_id.
C13_NonAdminHasSchool ==
    \A i \in DOMAIN users : users[i].role # ADMIN => users[i].school_id # None

\* C13 witness: a registered TEACHER, its contact info updated, soft-deleted,
\* after a session was opened and rotated
C13_Witness ==
    /\ Len(users) > Len(InitialUsers)
    /\ users[Len(users)].role = TEACHER
    /\ users[Len(users)].phone # None
    /\ users[Len(users)].is_deleted = 1
    /\ Len(refresh_tokens) > 1

\* C14: register rejects every email that a stored principal already holds
\* (compared lower-cased), a soft-deleted holder included: it answers
\* "Email already registered" and leaves the principals unchanged, so that no
\* two principals share an email.
C14_DuplicateEmailRejected ==
    [][(RegisterStep /\ \E i \in DOMAIN users : users[i].email = resp'.arg.email) =>
          /\ resp'.status = 400
          /\ resp'.detail = "Email already registered"
          /\ users' = users
          /\ \A i, j \in DOMAIN users' : users'[i].email = users'[j].email => i = j
    ]_vars

\* C15: a refresh of the refresh token a login returned, however soon after
\* the login (the same clock second included), returns an access token and a
\* refresh token that both differ from the ones the login returned.
C15_RefreshAfterLoginGivesNewTokens ==
    [][(/\ resp.op = "login" /\ resp.status = 200
        /\ resp'.op = "refresh" /\ resp'.status = 200
        /\ resp'.arg = resp.body[1].refresh_token) =>
          /\ resp'.body[1].access_token # resp.body[1].access_token
          /\ resp'.body[1].refresh_token # resp.body[1].refresh_token
    ]_vars

\* the expiry check of the refresh in flight runs in this step
ExpiryChecked == conn["c1"].pc = "selected" /\ conn'["c1"].pc # "selected"

\* C16: a refresh presenting a non-revoked token whose expires_at is strictly
\* before the current time is answered 401, issues no token and leaves the
\* record revoked; a token presented at or before its expires_at is not
\* treated as expired.
C16_ExpiredRefreshTokenRevoked ==
    [][ExpiryChecked =>
        LET record == conn["c1"].row[1]
        IN /\ record.expires_at < now =>
                 /\ resp' = HttpError("refresh", conn["c1"].presented, 401,
                                      "Refresh token has expired")
                 /\ Len(refresh_tokens') = Len(refresh_tokens)
                 /\ refresh_tokens'[record.token_id].revoked = 1
                 /\ conn'["c1"].pc = "idle"
           /\ now <= record.expires_at =>
                 /\ conn'["c1"].pc = "revoked"
                 /\ resp' = resp
    ]_vars

\* C16 witness: a token issued at the start was refused as expired one second
\* after its expires_at, and its record is revoked
C16_Witness ==
    /\ resp.op = "refresh"
    /\ resp.detail = "Refresh token has expired"
    /\ refresh_tokens[RowOf(resp.arg)].revoked = 1
    /\ refresh_tokens[RowOf(resp.arg)].expires_at + 1 = now

\* C17: a TEACHER mutates a class (update_class, record or bulk-set
\* attendance, create, update or delete a class event) only while a
\* teacher_classes row links that teacher to the class: with no such row at
\* request time the request is answered 403 and changes nothing, as is every
\* request after unassign_teacher_from_class.
C17_UnassignedTeacherRefused ==
    (/\ reply.op \in ClassMutations
     /\ reply.caller # None
     /\ reply.caller[1].role = TEACHER
     /\ ~reply.assigned)
        => (reply.status = 403 /\ ~reply.changed)

\* C17 witness: the teacher recorded attendance in the class while assigned,
\* was unassigned, and is refused on the next attendance request
C17_Witness ==
    /\ reply.op = "record_attendance"
    /\ reply.caller # None
    /\ reply.caller[1].role = TEACHER
    /\ ~reply.assigned
    /\ reply.status = 403
    /\ \E k \in DOMAIN attendance :
          /\ k[1] = reply.target
          /\ attendance[k].recorded_by = reply.caller[1].sub

\* ---------------------------------------------------------------- C18
\* the reads a PARENT is let into by the authenticated gate alone
ParentReads ==
    {"get_student", "get_class", "get_class_events", "get_class_event_by_id",
     "get_my_children"}

\* a student_parents row links the parent to the non-deleted student
LinkedChild(parent_id, student_id) ==
    /\ <<student_id, parent_id>> \in student_parents
    /\ student_id \in DOMAIN students
    /\ students[student_id].is_deleted = 0

\* the resource is tied to a linked child of the parent
TiedToChild(parent_id, kind, id) ==
    IF kind = "student" THEN LinkedChild(parent_id, id)
    ELSE \E st \in DOMAIN students :
             LinkedChild(parent_id, st) /\ <<st, id>> \in student_classes

ReadAnswer(op, current_user, id) ==
    IF op = "get_teacher" THEN get_teacher(current_user, id)
    ELSE IF op = "get_parent" THEN get_parent(current_user, id)
    ELSE get_class(current_user, id)

\* the id names a teacher, a parent or a class that is there
Names(op, id) ==
    IF op = "get_teacher"
    THEN user_get_by_id(id) # None /\ user_get_by_id(id)[1].role = TEACHER
    ELSE IF op = "get_parent"
    THEN user_get_by_id(id) # None /\ user_get_by_id(id)[1].role = PARENT
    ELSE class_get_by_id(id) # None

\* the resource the id names belongs to a school other than the caller's
Foreign(op, current_user, id) ==
    /\ Names(op, id)
    /\ current_user.school_id #
           (IF op = "get_class" THEN Some(classes[id].school_id) ELSE users[id].school_id)

\* C19: a non-ADMIN caller that asks for a teacher, parent or class id that
\* names no resource gets the same status and detail as it gets for every
\* id that names a resource of another school.
C19_MissingAnsweredLikeForeign ==
    (/\ reply.op \in {"get_teacher", "get_parent", "get_class"}
     /\ reply.caller # None
     /\ reply.caller[1].role # ADMIN
     /\ ~Names(reply.op, reply.target))
    => \A id \in UserIds \cup ClassIds :
           Foreign(reply.op, reply.caller[1], id)
           => /\ ReadAnswer(reply.op, reply.caller[1], id).status = reply.status
              /\ ReadAnswer(reply.op, reply.caller[1], id).detail = reply.detail

\* ---------------------------------------------------------------- C20
\* the token of the answered request was signed with the server's key and
\* had not expired when the request was answered
ValidBearer ==
    /\ reply.bearer.wellformed
    /\ reply.bearer.sig = [key |-> JWT_SECRET_KEY, over |-> reply.bearer.payload]
    /\ reply.bearer.payload.exp > reply.at

\* C20: a request with an invalid or expired token is answered 401 whatever
\* roles the endpoint allows; a request with a valid token reaches the
\* handler if and only if its role claim is in the endpoint's allowed roles,
\* and otherwise is answered 403 with no table changed.
C20_AuthenticatedThenRoleThenOperation ==
    reply.op # "" =>
        /\ ~ValidBearer => (reply.status = 401 /\ reply.caller = None /\ ~reply.wrote)
        /\ ValidBearer =>
              IF reply.bearer.payload.role \in reply.allowed
              THEN reply.caller = Some(reply.bearer.payload)
              ELSE /\ reply.status = 403
                   /\ reply.detail = "You do not have permission to perform this action"
                   /\ reply.caller = None
                   /\ ~reply.wrote

\* a teacher with a valid token asked to delete a class that exists and was
\* answered 403
C20_Witness ==
    /\ reply.op = "delete_class"
    /\ ValidBearer
    /\ reply.bearer.payload.role = TEACHER
    /\ reply.allowed = require_admin_or_director
    /\ class_get_by_id(reply.target) # None
    /\ reply.status = 403

\* ---------------------------------------------------------------- C21
\* C21: a logout of principal p marks every record of p revoked and leaves
\* every record of every other principal, and every other field, as it was;
\* applied again to the store it left, revoke_all_user_tokens changes
\* nothing, and logout(p) still succeeds.
C21_LogoutRevokesAllAndIsIdempotent ==
    [][\A p \in DOMAIN users :
          (Logout(p) /\ resp'.status = 204)
          => /\ DOMAIN refresh_tokens' = DOMAIN refresh_tokens
             /\ \A i \in DOMAIN refresh_tokens :
                   IF refresh_tokens[i].user_id = p
                   THEN refresh_tokens'[i] = [refresh_tokens[i] EXCEPT !.revoked = 1]
                   ELSE refresh_tokens'[i] = refresh_tokens[i]
             /\ revoke_all_user_tokens(refresh_tokens', p) = refresh_tokens'
             /\ exists(users', p)]_vars

\* a principal with two records was logged out while another principal holds
\* a live record
C21_Witness ==
    /\ resp.op = "logout"
    /\ resp.status = 204
    /\ \E i, j \in DOMAIN refresh_tokens :
          /\ i # j
          /\ refresh_tokens[i].user_id = resp.arg
          /\ refresh_tokens[j].user_id = resp.arg
    /\ \E k \in DOMAIN refresh_tokens :
          refresh_tokens[k].user_id # resp.arg /\ refresh_tokens[k].revoked = 0
    /\ \A i \in DOMAIN refresh_tokens :
          refresh_tokens[i].user_id = resp.arg => refresh_tokens[i].revoked = 1

\* ---------------------------------------------------------------- C22
\* the records stored for the raw refresh token t
RecordsOf(t) == {i \in DOMAIN refresh_tokens : refresh_tokens[i].token_hash = _hash_token(t)}

\* C22: a refresh that presents a token whose record is revoked and a refresh
\* that presents a value that was never issued end at once with the same
\* answer, 401 "Invalid or expired refresh token" without a body, and leave
\* every stored record as it was.
C22_RevokedLooksLikeNeverIssued ==
    [][\A t \in 0..MaxTokens :
          (/\ RefreshSelect("c1", t)
           /\ \A i \in RecordsOf(t) : refresh_tokens[i].revoked = 1)
          => /\ resp' = HttpError("refresh", t, 401, "Invalid or expired refresh token")
             /\ refresh_tokens' = refresh_tokens
             /\ conn' = conn]_vars

\* the last refresh presented the token of a record that is revoked, has not
\* expired and belongs to a principal that is not deleted, and was refused
C22_Witness ==
    /\ resp.op = "refresh"
    /\ resp.status = 401
    /\ resp.detail = "Invalid or expired refresh token"
    /\ RecordsOf(resp.arg) # {}
    /\ \A i \in RecordsOf(resp.arg) :
          /\ refresh_tokens[i].revoked = 1
          /\ refresh_tokens[i].expires_at > now
          /\ exists(users, refresh_tokens[i].user_id)

\* ---------------------------------------------------------------- C23
\* C23: every refresh that fails is answered with the same status and the
\* same message, 401 "Invalid or expired refresh token", whichever check
\* failed.
C23_RefreshFailuresAreGeneric ==
    (resp.op = "refresh" /\ resp.body = None)
    => (resp.status = 401 /\ resp.detail = "Invalid or expired refresh token")

\* ---------------------------------------------------------------- C24
\* C24: every step that adds a refresh_tokens record is a login or a refresh
\* that answers 200 with a raw value; the record has the columns user_id,
\* token_hash, expires_at and revoked only, its token_hash is the SHA-256
\* digest of that raw value, revoked is 0 and expires_at is the time of the
\* call plus 7 days; no earlier record was stored for the same raw value, and
\* no step alters the token_hash or the expires_at of a record.
C24_StoreHoldsOnlyHashes ==
    [][/\ Len(refresh_tokens') \in {Len(refresh_tokens), Len(refresh_tokens) + 1}
       /\ \A i \in DOMAIN refresh_tokens :
             /\ refresh_tokens'[i].token_hash = refresh_tokens[i].token_hash
             /\ refresh_tokens'[i].expires_at = refresh_tokens[i].expires_at
       /\ Len(refresh_tokens') = Len(refresh_tokens) + 1
             => LET new == refresh_tokens'[Len(refresh_tokens')]
                IN /\ resp'.op \in {"login", "refresh"}
                   /\ resp'.status = 200
                   /\ DOMAIN new = {"user_id", "token_hash", "expires_at", "revoked"}
                   /\ new.token_hash = [sha256 |-> resp'.body[1].refresh_token]
                   /\ new.revoked = 0
                   /\ new.expires_at = now + 7 * 24 * 60 * 60
                   /\ \A i \in DOMAIN refresh_tokens :
                         refresh_tokens[i].token_hash
                             # [sha256 |-> resp'.body[1].refresh_token]]_vars

\* a refresh answered 200 with a raw value whose digest is in the newest
\* record, next to the revoked record of the value it replaced
C24_Witness ==
    /\ resp.op = "refresh"
    /\ resp.status = 200
    /\ Len(refresh_tokens) >= 2
    /\ refresh_tokens[Len(refresh_tokens)].token_hash = [sha256 |-> resp.body[1].refresh_token]
    /\ refresh_tokens[Len(refresh_tokens)].revoked = 0
    /\ \E i \in DOMAIN refresh_tokens :
          /\ refresh_tokens[i].token_hash = [sha256 |-> resp.arg]
          /\ refresh_tokens[i].revoked = 1

\* ---------------------------------------------------------------- C25
\* C25: a step that soft-deletes a principal changes no refresh_tokens
\* record, and a refresh that presents a token all of whose records belong to
\* soft-deleted principals ends at once with 401 "Invalid or expired refresh
\* token", without a body, and leaves every record, the presented one
\* included, as it was.
C25_DeletedPrincipalCannotRefresh ==
    [][/\ users' # users => refresh_tokens' = refresh_tokens
       /\ \A t \in 1..MaxTokens :
             (/\ RefreshSelect("c1", t)
              /\ RecordsOf(t) # {}
              /\ \A i \in RecordsOf(t) : users[refresh_tokens[i].user_id].is_deleted = 1)
             => /\ resp' = HttpError("refresh", t, 401, "Invalid or expired refresh token")
                /\ refresh_tokens' = refresh_tokens
                /\ conn' = conn]_vars

\* the last refresh presented a token whose record is not revoked and has not
\* expired, its owner is soft-deleted, and the refresh was refused
C25_Witness ==
    /\ resp.op = "refresh"
    /\ resp.status = 401
    /\ resp.detail = "Invalid or expired refresh token"
    /\ RecordsOf(resp.arg) # {}
    /\ \A i \in RecordsOf(resp.arg) :
          /\ refresh_tokens[i].revoked = 0
          /\ refresh_tokens[i].expires_at > now
          /\ users[refresh_tokens[i].user_id].is_deleted = 1

\* ---------------------------------------------------------------- C26
\* C26: a logout for a principal id that names no users row, or a
\* soft-deleted one, is answered 400 "User not found" and leaves every
\* refresh_tokens record, those of that id included, as it was.
C26_LogoutOfMissingPrincipal ==
    [][\A p \in 1..(Len(users) + 1) :
          (Logout(p) /\ (p \notin DOMAIN users \/ users[p].is_deleted = 1))
          => /\ resp' = HttpError("logout", p, 400, "User not found")
             /\ refresh_tokens' = refresh_tokens]_vars

\* a soft-deleted principal that still owns a non-revoked record asked to be
\* logged out and was refused
C26_Witness ==
    /\ resp.op = "logout"
    /\ resp.status = 400
    /\ resp.arg \in DOMAIN users
    /\ users[resp.arg].is_deleted = 1
    /\ \E i \in DOMAIN refresh_tokens :
          refresh_tokens[i].user_id = resp.arg /\ refresh_tokens[i].revoked = 0

\* ---------------------------------------------------------------- C27
\* the records the step changes
Altered == {i \in DOMAIN refresh_tokens : refresh_tokens'[i] # refresh_tokens[i]}

\* C27: no step removes a record; a login and the insert of a refresh alter
\* no existing record; the revoke of a refresh alters at most the records
\* stored for the presented token, and in them only sets revoked to 1. Every
\* other record, of the same or of another principal, stays as it was.
C27_SessionsAreIndependent ==
    [][/\ Len(refresh_tokens') >= Len(refresh_tokens)
       /\ \A e \in EmailInputs, p \in PasswordInputs : Login(e, p) => Altered = {}
       /\ \A c \in Conns :
             /\ RefreshStore(c) => Altered = {}
             /\ RefreshRevoke(c)
                   => \A i \in Altered :
                         /\ i \in RecordsOf(conn[c].presented)
                         /\ refresh_tokens'[i] = [refresh_tokens[i] EXCEPT !.revoked = 1]]_vars

\* a refresh was answered 200 while the same principal holds another record,
\* stored before and for another token, that is still not revoked
C27_Witness ==
    /\ resp.op = "refresh"
    /\ resp.status = 200
    /\ \E i \in RecordsOf(resp.arg), j \in DOMAIN refresh_tokens :
          /\ j \notin RecordsOf(resp.arg)
          /\ j < Len(refresh_tokens)
          /\ refresh_tokens[j].user_id = refresh_tokens[i].user_id
          /\ refresh_tokens[i].revoked = 1
          /\ refresh_tokens[j].revoked = 0

\* ---------------------------------------------------------------- C28
\* the number of successful refreshes that presented a token of principal p
RECURSIVE RotationsOf(_, _)
RotationsOf(p, ts) ==
    IF ts = {} THEN 0
    ELSE LET t == CHOOSE x \in ts : TRUE
         IN (IF t \in TokensOf(refresh_tokens, p) THEN rotations[t] ELSE 0)
                + RotationsOf(p, ts \ {t})

\* C28: as long as no logout has revoked a record, the non-revoked,
\* non-expired records of a principal are never more than that principal's
\* successful logins (its records less those a successful refresh stored),
\* also when refreshes run concurrently.
C28_LiveRecordsBoundedByLogins ==
    loggedOut = {} =>
        \A p \in DOMAIN users :
            Cardinality({i \in DOMAIN refresh_tokens :
                            /\ refresh_tokens[i].user_id = p
                            /\ refresh_tokens[i].revoked = 0
                            /\ refresh_tokens[i].expires_at >= now})
                <= Cardinality({i \in DOMAIN refresh_tokens : refresh_tokens[i].user_id = p})
                       - RotationsOf(p, DOMAIN rotations)

\* ---------------------------------------------------------------- C29
\* C29: a request to record attendance by an ADMIN, a DIRECTOR or a TEACHER
\* assigned to the class, for a class that exists, a student enrolled in it
\* and a valid status, is answered 200 and stores the caller's user id as
\* recorded_by.
C29_AttendanceRecordedForAdminAndDirector ==
    [][\A k \in ClassCallers, c \in ClassIds, st \in DOMAIN students,
          d \in AttendanceDates, a \in AttendanceStatuses :
          (/\ RecordAttendance(k, c, st, d, a)
           /\ \/ k.payload.role \in {ADMIN, DIRECTOR}
              \/ k.payload.role = TEACHER /\ <<k.payload.sub, c>> \in teacher_classes
           /\ c \in DOMAIN classes
           /\ classes[c].is_deleted = 0
           /\ students[st].is_deleted = 0
           /\ <<st, c>> \in student_classes
           /\ a \in {"present", "absent", "late", "excused"})
          => /\ reply'.status = 200
             /\ <<c, st, d>> \in DOMAIN attendance'
             /\ attendance'[<<c, st, d>>].recorded_by = k.payload.sub]_vars

\* ---------------------------------------------------------------- C30
\* C30: a class with a capacity never has more enrolled, non-deleted students
\* than its capacity, whatever enrollments ran and however they interleaved.
C30_EnrolledNeverExceedsCapacity ==
    \A cl \in DOMAIN classes :
        classes[cl].capacity # None
        => Cardinality({st \in DOMAIN students :
                           /\ <<st, cl>> \in student_classes
                           /\ students[st].is_deleted = 0})
               <= classes[cl].capacity[1]
====
